---- MODULE Spec2Model ----
(***************************************************************************)
(* Model of the chat categorisation job (src/main.py): the Looker fetch,   *)
(* group_messages_by_brand, the per-brand loop of __main__ with the        *)
(* classifier call, the spreadsheet append and the watermark store.        *)
(*                                                                         *)
(* Time is counted in clock ticks of twelve hours.  A formatted timestamp  *)
(* ("%Y-%m-%d %H:%M:%S") is the sequence <<date, time of day>> of its      *)
(* fixed-width fields, compared as Python compares strings: field by       *)
(* field from the left.                                                    *)
(***************************************************************************)
EXTENDS Integers, Sequences, FiniteSets, TLC

VARIABLES
  source,          \* the records the Look held when the last run started
  arrived,         \* number of records the Look has ever held
  now,             \* wall clock when the last run started
  file,            \* chat_records.json
  sink,            \* the rows of the worksheet
  runs,            \* number of runs started
  pc,              \* "idle" (no process), "loop" (inside the for loop)
  exit,            \* how the last run ended: "none", "ok", "fatal", "raised", "killed"
  last_processed,  \* the in-memory watermark dict of the running process
  look_data,       \* the list fetched by the run
  grouped,         \* the dict returned by group_messages_by_brand, in insertion order
  idx,             \* position of the for loop in grouped
  processed_any,   \* the flag of __main__
  log,             \* log entries written by the run
  calls,           \* classifier calls made by the run
  started,         \* the sheet and the store when the run started
  hist,            \* per brand visited by the run: what went in and what came out
  prev,            \* the Look, the outcomes and the exit of the run before
  committed        \* per brand, the watermark of the last save that returned

vars == <<source, arrived, now, file, sink, runs, pc, exit, last_processed, look_data,
          grouped, idx, processed_any, log, calls, started, hist, prev, committed>>

\* ---------------------------------------------------------------- bounds
MaxTime == 2     \* message timestamps range over 0..MaxTime
MaxMsgs == 2     \* records that ever arrive in the Look
MaxRuns == 2     \* runs started

\* hours=24 of group_messages_by_brand, in ticks
hours == 2

\* the clock stops where the cutoff reaches the last but one timestamp
MaxNow == hours + MaxTime - 1

BrandNames == {"A"}
Contents   == {"x"}

\* ------------------------------------------------------------ dictionaries
EmptyDict == [k \in {} |-> <<>>]

Put(d, k, v) == [x \in (DOMAIN d) \cup {k} |-> IF x = k THEN v ELSE d[x]]

\* dict.get(k, default)
Get(d, k, default) == IF k \in DOMAIN d THEN d[k] ELSE default

\* None
None == <<>>

\* ------------------------------------------------------------- timestamps
\* datetime.strftime('%Y-%m-%d %H:%M:%S')
strftime(t) == <<t \div 2, t % 2>>

\* the range of the time-of-day field is not checked
ParsesLoose(s) == Len(s) = 2 /\ s[1] >= 0

\* does datetime.strptime(s, "%Y-%m-%d %H:%M:%S") return
Parses(s) == Len(s) = 2 /\ s[1] >= 0 /\ s[2] \in 0..1

\* datetime.strptime(s, "%Y-%m-%d %H:%M:%S"), where it returns
strptime(s) == 2 * s[1] + s[2]

\* a <= b on Python strings
RECURSIVE StrLeq(_, _)
StrLeq(a, b) ==
  IF a = <<>> THEN TRUE
  ELSE IF b = <<>> THEN FALSE
  ELSE IF a[1] # b[1] THEN a[1] < b[1]
  ELSE StrLeq(Tail(a), Tail(b))

\* ---------------------------------------------------------------- records
\* a timestamp string strptime rejects
BadStamp == <<0, 2>>

Stamps == {strftime(t) : t \in 0..MaxTime} \cup {BadStamp}

\* the records of the Look: the brand and the timestamp key may be absent
Records ==
  [ts : Stamps \ {BadStamp}, brand : BrandNames, content : Contents] \cup
  [ts : Stamps \ {BadStamp}, content : Contents] \cup
  [content : Contents]

\* ------------------------------------------------- group_messages_by_brand
\* position of brand in the insertion-ordered dict g, 0 when absent
BrandIndex(g, brand) ==
  IF \E i \in 1..Len(g) : g[i][1] = brand
  THEN CHOOSE i \in 1..Len(g) : g[i][1] = brand
  ELSE 0

\* a new brand is put in front of the brands seen before
GroupAppendFront(g, brand, item) ==
  LET i == BrandIndex(g, brand)
  IN IF i = 0 THEN <<<<brand, <<item>>>>>> \o g
     ELSE [g EXCEPT ![i] = <<brand, Append(g[i][2], item)>>]

\* the brand's list is replaced by the item
GroupAppendReplace(g, brand, item) ==
  LET i == BrandIndex(g, brand)
  IN IF i = 0 THEN Append(g, <<brand, <<item>>>>)
     ELSE [g EXCEPT ![i] = <<brand, <<item>>>>]

\* grouped[brand].append(item), creating the list first when brand is new
GroupAppend(g, brand, item) ==
  LET i == BrandIndex(g, brand)
  IN IF i = 0 THEN Append(g, <<brand, <<item>>>>)
     ELSE [g EXCEPT ![i] = <<brand, Append(g[i][2], item)>>]

\* item goes in front of the elements with its own timestamp
RECURSIVE InsertSortedUnstable(_, _)
InsertSortedUnstable(s, item) ==
  IF s = <<>> THEN <<item>>
  ELSE IF item[1] <= s[1][1] THEN <<item>> \o s
  ELSE <<s[1]>> \o InsertSortedUnstable(Tail(s), item)

\* insert item behind every element whose timestamp is not greater
RECURSIVE InsertSorted(_, _)
InsertSorted(s, item) ==
  IF s = <<>> THEN <<item>>
  ELSE IF item[1] < s[1][1] THEN <<item>> \o s
  ELSE <<s[1]>> \o InsertSorted(Tail(s), item)

\* list.sort(key=lambda x: x[0]): stable, ascending
RECURSIVE SortByTs(_)
SortByTs(s) ==
  IF s = <<>> THEN <<>>
  ELSE InsertSorted(SortByTs(SubSeq(s, 1, Len(s) - 1)), s[Len(s)])

\* the message at the cutoff is dropped too
BeforeCutoffInclusive(timestamp, cutoff) == timestamp <= cutoff

\* the test of the window filter: is the message dropped
BeforeCutoff(timestamp, cutoff) == timestamp < cutoff

\* the for loop over messages
RECURSIVE GroupLoop(_, _, _)
GroupLoop(messages, cutoff, g) ==
  IF messages = <<>> THEN g
  ELSE LET message == messages[1]
           timestamp_str == Get(message, "ts", None)
       IN IF ~Parses(timestamp_str)
          THEN GroupLoop(Tail(messages), cutoff, g)
          ELSE IF BeforeCutoff(strptime(timestamp_str), cutoff)
          THEN GroupLoop(Tail(messages), cutoff, g)
          ELSE GroupLoop(Tail(messages), cutoff,
                 GroupAppend(g, Get(message, "brand", "Unknown Brand"),
                   <<strptime(timestamp_str), Get(message, "content", "")>>))

\* the lists are left in arrival order
SortGroupsNone(g) == g

\* the sort of each brand's list
SortGroups(g) == [i \in 1..Len(g) |-> <<g[i][1], SortByTs(g[i][2])>>]

group_messages_by_brand(messages, clock) ==
  SortGroups(GroupLoop(messages, clock - hours, <<>>))

\* ------------------------------------------------- categorize_conversation
\* the keys of the JSON object the classifier is asked for
FullAnalysis ==
  [problem |-> "P", main_category |-> "M", solution |-> "S",
   magicos_issue |-> "MI", business_issue |-> "BI"]

\* what client.chat.completions.create can do: raise, or return a text that
\* is empty after strip(), cut off, a JSON array, or a JSON object
ApiOutcomes ==
  { [kind |-> "raise"],
    [kind |-> "text", body |-> "empty"],
    [kind |-> "text", body |-> "truncated"],
    [kind |-> "text", body |-> "array"],
    [kind |-> "text", body |-> "object", obj |-> FullAnalysis] }

\* an empty JSON object is returned when the call raises
categorize_conversationDefault(api) ==
  IF api.kind = "raise"
  THEN [kind |-> "text", body |-> "object", obj |-> EmptyDict]
  ELSE api

\* the value categorize_conversation returns: the text, or None
categorize_conversation(api) ==
  IF api.kind = "raise" THEN [kind |-> "None"] ELSE api

\* truth value of the returned value in "if categorization_result:"
Truthy(result) == result.kind # "None" /\ result.body # "empty"

\* json.loads: raises JSONDecodeError, or returns a list or a dict
json_loads(text) ==
  IF text.body = "object" THEN [err |-> FALSE, type |-> "dict", value |-> text.obj]
  ELSE IF text.body = "array" THEN [err |-> FALSE, type |-> "list", value |-> EmptyDict]
  ELSE [err |-> TRUE, type |-> "none", value |-> EmptyDict]

\* ----------------------------------------------------- update_google_sheet
\* append the row, or log the error; nothing is returned or raised
update_google_sheet(st, row, ok) ==
  IF ok
  THEN [st EXCEPT !.sink = Append(@, row),
                  !.log = Append(@, <<"INFO", "appended", row[4]>>)]
  ELSE [st EXCEPT !.log = Append(@, <<"ERROR", "sheet", row[4]>>)]

\* ------------------------------------------------------- watermark store
\* json.dump of a dict: its key/value pairs
dump(d) == {<<k, d[k]>> : k \in DOMAIN d}

\* json.load of the pairs
loads(c) == [k \in {p[1] : p \in c} |-> (CHOOSE p \in c : p[1] = k)[2]]

NoFile == [state |-> "absent", content |-> {}]

load_last_processed(f) == IF f.state = "absent" THEN EmptyDict ELSE loads(f.content)

save_last_processed(d) == [state |-> "ok", content |-> dump(d)]

\* ------------------------------------------------------ the loop of __main__
\* the transcript handed to the classifier
Conversation(messages) ==
  [i \in 1..Len(messages) |-> <<strftime(messages[i][1]), messages[i][2]>>]

latest_timestamp(messages) == strftime(messages[Len(messages)][1])

\* the comparison is strict
AlreadyProcessedStrict(lp, brand, latest) ==
  LET last_brand_timestamp == Get(lp, brand, None)
  IN /\ last_brand_timestamp # None
     /\ StrLeq(latest, last_brand_timestamp)
     /\ latest # last_brand_timestamp

\* the comparison with the watermark is missing
AlreadyProcessedNever(lp, brand, latest) == FALSE

\* "if last_brand_timestamp and latest_timestamp <= last_brand_timestamp"
AlreadyProcessed(lp, brand, latest) ==
  LET last_brand_timestamp == Get(lp, brand, None)
  IN last_brand_timestamp # None /\ StrLeq(latest, last_brand_timestamp)

\* the row built from the analysis
Row(latest, brand, analysis) ==
  << latest, "", "", brand, "Chat",
     Get(analysis, "problem", ""),
     Get(analysis, "main_category", ""),
     Get(analysis, "solution", ""),
     Get(analysis, "magicos_issue", ""),
     Get(analysis, "business_issue", "") >>

\* the dict is updated and never written to the file
AdvanceWatermarkUnsaved(st, brand, latest) ==
  [st EXCEPT !.lp = Put(st.lp, brand, latest), !.processed_any = TRUE]

\* the watermark update behind update_google_sheet
AdvanceWatermark(st, brand, latest) ==
  LET lp == Put(st.lp, brand, latest)
  IN [st EXCEPT !.lp = lp,
                !.file = save_last_processed(lp),
                !.processed_any = TRUE]

\* the brand is up to date: log and continue
SkipBrand(st, brand, latest) ==
  [st EXCEPT !.log = Append(@, <<"INFO", "skip", brand>>), !.outcome = "skipped"]

\* the else branch: the classifier returned nothing
CategorizeFailed(st, brand, latest) ==
  [st EXCEPT !.log = Append(Append(@, <<"ERROR", "gpt", brand>>),
                            <<"ERROR", "categorize", brand>>),
             !.outcome = "callfail"]

\* an empty reply takes the else branch too, without the classifier's own error
EmptyResult(st, brand, latest) ==
  [st EXCEPT !.log = Append(@, <<"ERROR", "categorize", brand>>),
             !.outcome = "callfail"]

\* the error is logged and the watermark is updated all the same
ParseFailedAdvances(st, brand, latest) ==
  AdvanceWatermark(
    [st EXCEPT !.log = Append(@, <<"ERROR", "json", brand>>), !.outcome = "parsefail"],
    brand, latest)

\* except json.JSONDecodeError: log and continue
ParseFailed(st, brand, latest) ==
  [st EXCEPT !.log = Append(@, <<"ERROR", "json", brand>>), !.outcome = "parsefail"]

\* analysis.get on a value that is no dict: AttributeError leaves the loop
NotADict(st, brand, latest) == [st EXCEPT !.outcome = "raised"]

\* the row is appended and the watermark left alone
WriteRowNoWatermark(st, brand, latest, analysis, ok) ==
  LET st1 == update_google_sheet(st, Row(latest, brand, analysis), ok)
  IN [st1 EXCEPT !.processed_any = TRUE,
                 !.outcome = IF ok THEN "ok" ELSE "appendfail"]

\* the row, the append and the watermark update
WriteRow(st, brand, latest, analysis, ok) ==
  LET st1 == update_google_sheet(st, Row(latest, brand, analysis), ok)
      st2 == AdvanceWatermark(st1, brand, latest)
  IN [st2 EXCEPT !.outcome = IF ok THEN "ok" ELSE "appendfail"]

\* the branches behind the classifier call
Classified(st, brand, latest, api, ok) ==
  LET categorization_result == categorize_conversation(api)
  IN IF ~Truthy(categorization_result)
     THEN IF categorization_result.kind = "None"
          THEN CategorizeFailed(st, brand, latest)
          ELSE EmptyResult(st, brand, latest)
     ELSE LET parsed == json_loads(categorization_result)
          IN IF parsed.err THEN ParseFailed(st, brand, latest)
             ELSE IF parsed.type # "dict" THEN NotADict(st, brand, latest)
             ELSE WriteRow(st, brand, latest, parsed.value, ok)

\* one iteration of "for brand, messages in grouped.items()"
Iterate(st, brand, messages, api, ok) ==
  LET latest == latest_timestamp(messages)
  IN IF AlreadyProcessed(st.lp, brand, latest)
     THEN SkipBrand(st, brand, latest)
     ELSE Classified(
            [st EXCEPT !.calls = Append(@, [brand |-> brand,
                                            conversation |-> Conversation(messages)])],
            brand, latest, api, ok)

\* ------------------------------------------------------------------ state
Torn == [state |-> "torn", content |-> {}]

NoRun == [source |-> <<>>, exit |-> "none", hist |-> EmptyDict]

Init ==
  /\ source = <<>>
  /\ arrived = 0
  /\ now = hours
  /\ file = NoFile
  /\ sink = <<>>
  /\ runs = 0
  /\ pc = "idle"
  /\ exit = "none"
  /\ last_processed = EmptyDict
  /\ look_data = <<>>
  /\ grouped = <<>>
  /\ idx = 1
  /\ processed_any = FALSE
  /\ log = <<>>
  /\ calls = <<>>
  /\ started = [sink |-> <<>>, file |-> NoFile]
  /\ hist = EmptyDict
  /\ prev = NoRun
  /\ committed = EmptyDict

\* ------------------------------------------------------------ environment
\* sequences of at most n records
RecordSeqs(n) == UNION {[1..m -> Records] : m \in 0..n}

\* the chat messages that can have been written since the last run
Arrivals == RecordSeqs(MaxMsgs - arrived)

\* what the Look holds when the next run starts: its k oldest records have
\* left it and the new ones are behind the rest
Look(k, new) == SubSeq(source, k + 1, Len(source)) \o new

\* the clock readings the next run can start at
Clocks == {t \in {now, now + 1} : t <= MaxNow}

\* classifier call failures and unparseable replies are one kind of failure
OutcomeClass(o) == IF o \in {"callfail", "parsefail"} THEN "failed" ELSE o

\* what is remembered of a run when the next one starts
Summary ==
  [source |-> source, exit |-> exit,
   hist |-> [b \in DOMAIN hist |->
               [outcome |-> OutcomeClass(hist[b].outcome),
                messages |-> hist[b].messages]]]

\* ---------------------------------------------------------------- __main__
\* a process starts at clock reading clock
Launch(k, new, clock) ==
  /\ pc = "idle"
  /\ runs < MaxRuns
  /\ runs' = runs + 1
  /\ source' = Look(k, new)
  /\ arrived' = arrived + Len(new)
  /\ now' = clock
  /\ started' = [sink |-> sink, file |-> file]
  /\ prev' = Summary
  /\ idx' = 1
  /\ processed_any' = FALSE
  /\ calls' = <<>>
  /\ hist' = EmptyDict
  /\ UNCHANGED <<file, sink, committed>>

\* "if not processed_any": the closing log line
Closing(entries, any) ==
  IF any THEN entries ELSE Append(entries, <<"INFO", "nothing", "">>)

\* the run up to the for loop: load the watermarks, fetch the Look, group;
\* with nothing grouped the loop body never runs and the process exits
RunToLoop(k, new, clock) ==
  /\ Launch(k, new, clock)
  /\ file.state # "torn"
  /\ last_processed' = load_last_processed(file)
  /\ look_data' = Look(k, new)
  /\ grouped' = group_messages_by_brand(Look(k, new), clock)
  /\ IF group_messages_by_brand(Look(k, new), clock) = <<>>
     THEN pc' = "idle" /\ exit' = "ok" /\ log' = Closing(<<>>, FALSE)
     ELSE pc' = "loop" /\ exit' = "none" /\ log' = <<>>

StartRun ==
  \E k \in 0..Len(source), new \in Arrivals, clock \in Clocks :
    RunToLoop(k, new, clock)

\* the error is logged and not raised again: the run goes on with no records
FetchFailsSwallowed ==
  \E k \in 0..Len(source), new \in Arrivals, clock \in Clocks :
    /\ Launch(k, new, clock)
    /\ file.state # "torn"
    /\ last_processed' = load_last_processed(file)
    /\ look_data' = <<>>
    /\ grouped' = <<>>
    /\ log' = Closing(<<<<"ERROR", "looker", "">>>>, FALSE)
    /\ pc' = "idle"
    /\ exit' = "ok"

\* looker_credentials or get_look_data raises: logged, re-raised, the run ends
FetchFails ==
  \E k \in 0..Len(source), new \in Arrivals, clock \in Clocks :
    /\ Launch(k, new, clock)
    /\ file.state # "torn"
    /\ last_processed' = load_last_processed(file)
    /\ look_data' = <<>>
    /\ grouped' = <<>>
    /\ log' = <<<<"ERROR", "looker", "">>>>
    /\ pc' = "idle"
    /\ exit' = "fatal"

\* the state one iteration works on
LoopState ==
  [lp |-> last_processed, file |-> file, sink |-> sink, log |-> log,
   calls |-> calls, processed_any |-> processed_any, outcome |-> "none"]

\* what the run remembers of the iteration for brand
HistEntry(brand, messages, api, st) ==
  [pre_mem |-> Get(last_processed, brand, None),
   pre_file |-> Get(load_last_processed(file), brand, None),
   messages |-> messages,
   called |-> Len(st.calls) > Len(calls),
   api |-> IF Len(st.calls) > Len(calls) THEN api ELSE [kind |-> "nocall"],
   outcome |-> st.outcome]

\* what the classifier and the sheet can do in the iteration for brand: the
\* sheet is only reached with a JSON object, the classifier only when the
\* brand is not skipped
Environments(brand, messages) ==
  IF AlreadyProcessed(last_processed, brand, latest_timestamp(messages))
  THEN {<<[kind |-> "raise"], TRUE>>}
  ELSE {<<api, ok>> : api \in ApiOutcomes, ok \in BOOLEAN} \
       {<<api, FALSE>> : api \in {a \in ApiOutcomes : a.kind = "raise" \/ a.body # "object"}}

\* one iteration of the for loop, with what the classifier and the sheet do;
\* behind the last one the process exits
ProcessBrand ==
  /\ pc = "loop"
  /\ idx <= Len(grouped)
  /\ \E e \in Environments(grouped[idx][1], grouped[idx][2]) :
       LET brand == grouped[idx][1]
           messages == grouped[idx][2]
           api == e[1]
           st == Iterate(LoopState, brand, messages, api, e[2])
       IN /\ last_processed' = st.lp
          /\ file' = st.file
          /\ sink' = st.sink
          /\ calls' = st.calls
          /\ processed_any' = st.processed_any
          /\ hist' = Put(hist, brand, HistEntry(brand, messages, api, st))
          /\ committed' = IF st.file # file
                          THEN load_last_processed(st.file) ELSE committed
          /\ IF st.outcome = "raised"
             THEN pc' = "idle" /\ exit' = "raised" /\ idx' = idx /\ log' = st.log
             ELSE IF idx = Len(grouped)
             THEN /\ pc' = "idle" /\ exit' = "ok" /\ idx' = idx + 1
                  /\ log' = Closing(st.log, st.processed_any)
             ELSE pc' = "loop" /\ exit' = exit /\ idx' = idx + 1 /\ log' = st.log
  /\ UNCHANGED <<source, arrived, now, look_data, grouped, started, prev, runs>>

Next == StartRun \/ FetchFails \/ ProcessBrand

Spec == Init /\ [][Next]_vars

\* ------------------------------------------------------------ a single run
\* the keys group_messages_by_brand can produce
BrandKeys == BrandNames \cup {"Unknown Brand"}

\* the watermark dicts earlier runs can have left in the file
Stores ==
  UNION {[B -> Stamps \ {BadStamp}] : B \in SUBSET BrandKeys}

\* one run is left to start, and the file holds any store, or is absent
RunInit ==
  /\ source = <<>>
  /\ arrived = 0
  /\ now = hours
  /\ file \in {NoFile} \cup {save_last_processed(d) : d \in Stores}
  /\ committed = load_last_processed(file)
  /\ sink = <<>>
  /\ runs = MaxRuns - 1
  /\ pc = "idle"
  /\ exit = "none"
  /\ last_processed = EmptyDict
  /\ look_data = <<>>
  /\ grouped = <<>>
  /\ idx = 1
  /\ processed_any = FALSE
  /\ log = <<>>
  /\ calls = <<>>
  /\ started = [sink |-> <<>>, file |-> file]
  /\ hist = EmptyDict
  /\ prev = NoRun

RunSpec == RunInit /\ [][Next]_vars

\* ------------------------------------------------- a run and its repetition
\* the first of two runs
FirstRun == runs = MaxRuns - 2 /\ StartRun

\* the second: the Look holds what it held when the first run started
Rerun ==
  /\ runs = MaxRuns - 1
  /\ \E clock \in Clocks : RunToLoop(0, <<>>, clock)

\* two runs are left to start, and no run has saved a watermark yet
RerunInit ==
  /\ source = <<>>
  /\ arrived = 0
  /\ now = hours
  /\ file = NoFile
  /\ committed = EmptyDict
  /\ sink = <<>>
  /\ runs = MaxRuns - 2
  /\ pc = "idle"
  /\ exit = "none"
  /\ last_processed = EmptyDict
  /\ look_data = <<>>
  /\ grouped = <<>>
  /\ idx = 1
  /\ processed_any = FALSE
  /\ log = <<>>
  /\ calls = <<>>
  /\ started = [sink |-> <<>>, file |-> file]
  /\ hist = EmptyDict
  /\ prev = NoRun

RerunNext == FirstRun \/ Rerun \/ ProcessBrand

RerunSpec == RerunInit /\ [][RerunNext]_vars

\* ------------------------------------------- group_messages_by_brand alone
\* records for a call of the function: the brand key may be absent; the
\* timestamp key holds a timestamp, or a string strptime rejects, or is
\* absent, and then the loop reads no other key of the record
GroupContents == {"x", "y"}

GroupRecords ==
  [ts : Stamps \ {BadStamp}, brand : BrandNames, content : GroupContents] \cup
  [ts : Stamps \ {BadStamp}, content : GroupContents] \cup
  [ts : {BadStamp}, brand : BrandNames, content : {"x"}] \cup
  [content : {"x"}]

\* message lists of at most MaxMsgs + 1 records
GroupInputs == UNION {[1..m -> GroupRecords] : m \in 0..(MaxMsgs + 1)}

\* the function has not been called: look_data holds its argument and now
\* the reading datetime.now() will give
GroupInit ==
  /\ look_data \in GroupInputs
  /\ now \in {hours, hours + 1}
  /\ grouped = <<>>
  /\ pc = "call"
  /\ source = <<>>
  /\ arrived = 0
  /\ file = NoFile
  /\ committed = EmptyDict
  /\ sink = <<>>
  /\ runs = 0
  /\ exit = "none"
  /\ last_processed = EmptyDict
  /\ idx = 1
  /\ processed_any = FALSE
  /\ log = <<>>
  /\ calls = <<>>
  /\ started = [sink |-> <<>>, file |-> NoFile]
  /\ hist = EmptyDict
  /\ prev = NoRun

\* grouped = group_messages_by_brand(look_data, hours=24)
GroupCall ==
  /\ pc = "call"
  /\ grouped' = group_messages_by_brand(look_data, now)
  /\ pc' = "returned"
  /\ UNCHANGED <<source, arrived, now, file, sink, committed, last_processed,
                 look_data, idx, processed_any, log, calls, started, hist,
                 prev, runs, exit>>

GroupSpec == GroupInit /\ [][GroupCall]_vars

\* ---------------------------------------------------------------- crashes
\* the process is killed between two iterations of the loop
Kill ==
  /\ pc = "loop"
  /\ pc' = "idle"
  /\ exit' = "killed"
  /\ UNCHANGED <<source, arrived, now, file, sink, committed, last_processed,
                 look_data, grouped, idx, processed_any, log, calls, started,
                 hist, prev, runs>>

\* the process is killed behind update_google_sheet: before the file is
\* opened, or inside save_last_processed, where open(..., "w") has emptied
\* the file and json.dump has written none, part or all of the new text
KillWriting ==
  /\ pc = "loop"
  /\ idx <= Len(grouped)
  /\ LET brand == grouped[idx][1]
         messages == grouped[idx][2]
         latest == latest_timestamp(messages)
         st0 == [LoopState EXCEPT
                   !.calls = Append(@, [brand |-> brand,
                                        conversation |-> Conversation(messages)]),
                   !.outcome = "killed"]
     IN /\ ~AlreadyProcessed(last_processed, brand, latest)
        /\ \E ok \in BOOLEAN :
             LET st1 == update_google_sheet(st0, Row(latest, brand, FullAnalysis), ok)
                 lp == Put(last_processed, brand, latest)
             IN /\ sink' = st1.sink
                /\ log' = st1.log
                /\ calls' = st1.calls
                /\ hist' = Put(hist, brand,
                     HistEntry(brand, messages,
                       [kind |-> "text", body |-> "object", obj |-> FullAnalysis], st1))
                /\ \/ last_processed' = last_processed /\ file' = file
                   \/ last_processed' = lp /\ file' = Torn
                   \/ last_processed' = lp /\ file' = save_last_processed(lp)
  /\ pc' = "idle"
  /\ exit' = "killed"
  /\ UNCHANGED <<source, arrived, now, committed, look_data, grouped, idx,
                 processed_any, started, prev, runs>>

\* json.load raises on a file that holds no complete JSON text
LoadFails ==
  \E k \in 0..Len(source), new \in Arrivals, clock \in Clocks :
    /\ Launch(k, new, clock)
    /\ file.state = "torn"
    /\ last_processed' = EmptyDict
    /\ look_data' = <<>>
    /\ grouped' = <<>>
    /\ log' = <<>>
    /\ pc' = "idle"
    /\ exit' = "raised"

CrashNext == Next \/ Kill \/ KillWriting \/ LoadFails

CrashSpec == Init /\ [][CrashNext]_vars

\* ----------------------------------------------------------------- claims
Range(q) == {q[i] : i \in DOMAIN q}

\* the watermark of brand b in memory and in the store
MemGet(b) == Get(last_processed, b, None)

FileGet(b) == Get(load_last_processed(file), b, None)

\* positions of the rows the run has appended for brand b
RunRows(b) == {i \in (Len(started.sink) + 1)..Len(sink) : sink[i][4] = b}

\* brand b's watermark, in memory and in the store, is what it was before b's iteration
WatermarkKept(b) ==
  /\ MemGet(b) = hist[b].pre_mem
  /\ FileGet(b) = hist[b].pre_file

\* C1: when the spreadsheet append for a brand fails, the brand's in-memory
\* and persisted watermark keep the values they had before the brand was
\* processed.
C1_AppendFailureKeepsWatermark ==
  \A b \in DOMAIN hist : hist[b].outcome = "appendfail" => WatermarkKept(b)

\* C2: a brand whose processing failed in the run before (classifier call
\* failure, unparseable reply or append failure) and whose messages of that
\* run are all still in this run's group is not skipped: the classifier is
\* called for it again.
C2_FailedBrandRetried ==
  \A b \in (DOMAIN hist) \cap (DOMAIN prev.hist) :
    ( /\ prev.hist[b].outcome \in {"failed", "appendfail"}
      /\ Range(prev.hist[b].messages) \subseteq Range(hist[b].messages) )
    => hist[b].called

\* C3: whatever per-brand error occurs, a run that got past the fetch ends
\* only after every brand of the grouped mapping has been visited.
C3_EveryBrandVisited ==
  (pc = "idle" /\ exit \in {"ok", "raised"})
  => \A i \in 1..Len(grouped) : grouped[i][1] \in DOMAIN hist

\* C4: when the classification call raises for a brand, the run appends no
\* row for the brand and the brand's in-memory and persisted watermark are
\* unchanged.
C4_CallErrorSkipsBrand ==
  \A b \in DOMAIN hist :
    hist[b].api.kind = "raise" => (RunRows(b) = {} /\ WatermarkKept(b))

C4_Witness ==
  \E b, c \in DOMAIN hist :
    /\ hist[b].api.kind = "raise"
    /\ hist[c].outcome = "ok"
    /\ RunRows(c) # {}

\* C5: when the classifier's reply is not valid JSON (cut off text), no row
\* is appended for the brand, an error naming the brand is logged and the
\* brand's watermark is unchanged.
C5_BadReplySkipsBrand ==
  \A b \in DOMAIN hist :
    (hist[b].api.kind = "text" /\ hist[b].api.body = "truncated")
    => /\ RunRows(b) = {}
       /\ <<"ERROR", "json", b>> \in Range(log)
       /\ WatermarkKept(b)

C5_Witness ==
  \E b, c \in DOMAIN hist :
    /\ hist[b].api.kind = "text" /\ hist[b].api.body = "truncated"
    /\ hist[c].outcome = "ok"
    /\ RunRows(c) # {}

\* the time of the last message of b's group in the run
LatestOf(b) == hist[b].messages[Len(hist[b].messages)][1]

\* C6: for a brand with a stored watermark whose conversation's latest
\* timestamp is not later than the watermark, the run makes no classifier
\* call, appends no row and leaves the brand's watermark unchanged.
C6_SkipCondition ==
  \A b \in DOMAIN hist :
    (hist[b].pre_mem # None /\ LatestOf(b) <= strptime(hist[b].pre_mem))
    => /\ ~hist[b].called
       /\ \A i \in DOMAIN calls : calls[i].brand # b
       /\ RunRows(b) = {}
       /\ WatermarkKept(b)

C6_Witness ==
  /\ \E b \in DOMAIN hist :
       hist[b].pre_mem # None /\ LatestOf(b) < strptime(hist[b].pre_mem)
  /\ \E b \in DOMAIN hist :
       hist[b].pre_mem # None /\ LatestOf(b) = strptime(hist[b].pre_mem)
  /\ pc = "idle" /\ exit = "ok"

\* the watermarks of d are all in e, none of them earlier there
NotBehind(d, e) ==
  \A b \in DOMAIN d : b \in DOMAIN e /\ strptime(d[b]) <= strptime(e[b])

\* C7: no step replaces a brand's watermark by an earlier timestamp or
\* removes it, in the store or in memory.
C7_WatermarkMonotonic ==
  [][ /\ NotBehind(load_last_processed(file), load_last_processed(file'))
      /\ NotBehind(last_processed, last_processed') ]_vars

C7_Witness ==
  \E b \in DOMAIN hist :
    /\ hist[b].pre_file # None
    /\ strptime(hist[b].pre_file) < strptime(FileGet(b))

\* the run started with the Look holding what it held when the run before started
NoNewData == prev.exit # "none" /\ source = prev.source

\* the run has appended nothing and the store is as it was when the run started
RunIdle == sink = started.sink /\ file = started.file

\* C8 as stated: a run that follows a run that ended normally, with no new
\* data in between, appends no row and leaves the watermark store unchanged.
C8_SecondRunIdle == (NoNewData /\ prev.exit = "ok") => RunIdle

\* the run before ended normally and none of its classifications failed
PrevClean ==
  /\ prev.exit = "ok"
  /\ \A b \in DOMAIN prev.hist :
       prev.hist[b].outcome \in {"skipped", "ok", "appendfail"}

\* C8 amended: when the first run ended normally without a failed
\* classification, a second run with no new data appends no row, leaves the
\* store unchanged and skips every brand.
C8_IdempotentAfterCleanRun ==
  (NoNewData /\ PrevClean)
  => /\ RunIdle
     /\ calls = <<>>
     /\ \A b \in DOMAIN hist : hist[b].outcome = "skipped"

C8_Witness ==
  /\ NoNewData /\ PrevClean
  /\ pc = "idle" /\ exit = "ok"
  /\ \E b \in DOMAIN hist :
       b \in DOMAIN prev.hist /\ prev.hist[b].outcome = "ok"

\* C9: whatever happens to the process, the store holds the watermark of
\* every brand whose save has returned.
C9_CommittedSurvive ==
  \A b \in DOMAIN committed : file.state = "ok" /\ FileGet(b) = committed[b]

\* the records of the Look that belong to brand b's group in the run
InGroup(b) ==
  {i \in DOMAIN look_data :
     LET r == look_data[i]
     IN /\ "ts" \in DOMAIN r /\ Parses(r.ts)
        /\ strptime(r.ts) >= now - hours
        /\ b = (IF "brand" \in DOMAIN r THEN r.brand ELSE "Unknown Brand")}

\* the greatest timestamp among them
GreatestOf(b) ==
  CHOOSE t \in {strptime(look_data[i].ts) : i \in InGroup(b)} :
    \A i \in InGroup(b) : strptime(look_data[i].ts) <= t

\* C10: for a brand that is not skipped, gets a reply with all five fields
\* and whose append succeeds, the run appends exactly one row for the brand,
\* [latest_ts, "", "", brand, "Chat", problem, main_category, solution,
\* magicos_issue, business_issue] with latest_ts the brand's greatest
\* timestamp, and the brand's watermark becomes latest_ts.
C10_SuccessPath ==
  \A b \in DOMAIN hist :
    (hist[b].called /\ hist[b].api = [kind |-> "text", body |-> "object", obj |-> FullAnalysis]
       /\ hist[b].outcome = "ok")
    => /\ Cardinality(RunRows(b)) = 1
       /\ \A i \in RunRows(b) :
            sink[i] = << strftime(GreatestOf(b)), "", "", b, "Chat",
                         "P", "M", "S", "MI", "BI" >>
       /\ MemGet(b) = strftime(GreatestOf(b))
       /\ FileGet(b) = strftime(GreatestOf(b))

C10_Witness ==
  \E b \in DOMAIN hist :
    /\ hist[b].outcome = "ok"
    /\ Len(hist[b].messages) = 2
    /\ Len(look_data) = 2
    /\ strptime(look_data[1].ts) > strptime(look_data[2].ts)
    /\ Cardinality(RunRows(b)) = 1

\* C11: when the authentication or the query against the Look fails, the
\* run ends with the error raised, having made no classifier call, appended
\* no row and left the watermark store as it was.
C11_FetchFailureFatal ==
  (<<"ERROR", "looker", "">> \in Range(log))
  => /\ pc = "idle" /\ exit = "fatal"
     /\ calls = <<>>
     /\ hist = EmptyDict
     /\ sink = started.sink
     /\ file = started.file

C11_Witness ==
  /\ exit = "fatal"
  /\ <<"ERROR", "looker", "">> \in Range(log)
  /\ file.state = "ok" /\ file.content # {}

\* position in the fetched list of the first record of brand b's group
FirstIndex(b) == CHOOSE i \in InGroup(b) : \A j \in InGroup(b) : i <= j

\* position of brand b in grouped
PlaceOf(b) == CHOOSE i \in DOMAIN grouped : grouped[i][1] = b

\* the store the run started with
StartedStore == load_last_processed(started.file)

\* C15: the brands of grouped are in the order of their first retained
\* record in the fetched list; the brands the run has visited are a prefix
\* of that order, the rows the run has appended follow it, and only visited
\* brands have a changed watermark in the store.
C15_BrandOrder ==
  /\ \A i, j \in DOMAIN grouped :
       i < j => FirstIndex(grouped[i][1]) < FirstIndex(grouped[j][1])
  /\ \E n \in 0..Len(grouped) : DOMAIN hist = {grouped[i][1] : i \in 1..n}
  /\ \A p, q \in (Len(started.sink) + 1)..Len(sink) :
       p < q => PlaceOf(sink[p][4]) < PlaceOf(sink[q][4])
  /\ \A p, q \in DOMAIN calls :
       p < q => PlaceOf(calls[p].brand) < PlaceOf(calls[q].brand)
  /\ \A b \in BrandKeys :
       FileGet(b) # Get(StartedStore, b, None) => b \in DOMAIN hist

C15_Witness ==
  /\ pc = "idle" /\ exit = "ok"
  /\ Len(grouped) = 2
  /\ grouped[1][1] = "Unknown Brand" /\ grouped[2][1] = "A"
  /\ grouped[1][2][1][1] > grouped[2][2][1][1]
  /\ Len(sink) = Len(started.sink) + 2
  /\ sink[Len(sink)][4] = "A"
  /\ FileGet("A") # Get(StartedStore, "A", None)
  /\ FileGet("Unknown Brand") # Get(StartedStore, "Unknown Brand", None)

\* a run has loaded the store
Loaded == pc = "loop" \/ exit \in {"ok", "raised", "fatal"}

\* the brand was skipped, or its processing failed: the classifier call, the
\* parsing of the reply, or the append to the sheet
SkippedOrFailed == {"skipped", "callfail", "parsefail", "raised", "appendfail"}

\* C17: the entries the run loaded from the store for brands that are
\* absent from the window, skipped or failed have their loaded values in
\* memory and in the store.
C17_LoadedEntriesKept ==
  Loaded =>
    \A b \in DOMAIN StartedStore :
      (b \notin DOMAIN hist \/ hist[b].outcome \in SkippedOrFailed)
      => /\ MemGet(b) = StartedStore[b]
         /\ FileGet(b) = StartedStore[b]

\* C18: of two rows of the sheet for the same brand the later one has the
\* later timestamp.
C18_RowsIncrease ==
  \A i, j \in DOMAIN sink :
    (i < j /\ sink[i][4] = sink[j][4]) => strptime(sink[i][1]) < strptime(sink[j][1])

C18_Witness ==
  /\ pc = "idle" /\ exit = "ok"
  /\ \E i, j \in DOMAIN sink : i < j /\ sink[i][4] = sink[j][4]

\* ------------------------------------- claims on group_messages_by_brand
\* the function has returned
Returned == pc = "returned"

\* the record has a timestamp in the fixed format
Valid(r) == "ts" \in DOMAIN r /\ r.ts \in {strftime(t) : t \in 0..MaxTime}

\* the time it denotes
TimeOf(r) == CHOOSE t \in 0..MaxTime : strftime(t) = r.ts

\* the key it is grouped under
KeyOf(r) == IF "brand" \in DOMAIN r THEN r.brand ELSE "Unknown Brand"

\* the (timestamp, content) pair made of it
ItemOf(r) == <<TimeOf(r), r.content>>

Cutoff == now - hours

\* the records of the argument with a timestamp in the format that is not
\* before the cutoff
Retained == {i \in DOMAIN look_data :
               Valid(look_data[i]) /\ TimeOf(look_data[i]) >= Cutoff}

\* those of them under key b
RetainedOf(b) == {i \in Retained : KeyOf(look_data[i]) = b}

\* the keys of the returned dict and the list under key b
KeysOut == {grouped[i][1] : i \in DOMAIN grouped}

GroupOf(b) ==
  IF b \in KeysOut
  THEN grouped[CHOOSE i \in DOMAIN grouped : grouped[i][1] = b][2]
  ELSE <<>>

\* number of positions of q that hold x
Count(q, x) == Cardinality({i \in DOMAIN q : q[i] = x})

\* C12 as stated: no message of the output has a timestamp equal to the
\* cutoff or earlier.
C12_BoundaryExcluded ==
  Returned => \A b \in KeysOut : \A k \in DOMAIN GroupOf(b) :
                GroupOf(b)[k][1] > Cutoff

\* C12 amended: no message of the output is older than the cutoff, and a
\* record whose timestamp equals the cutoff is in its brand's group.
C12_BoundaryKept ==
  Returned =>
    /\ \A b \in KeysOut : \A k \in DOMAIN GroupOf(b) : GroupOf(b)[k][1] >= Cutoff
    /\ \A i \in DOMAIN look_data :
         (Valid(look_data[i]) /\ TimeOf(look_data[i]) = Cutoff)
         => Count(GroupOf(KeyOf(look_data[i])), ItemOf(look_data[i])) >= 1

C12_Witness ==
  /\ Returned
  /\ \E i, j \in DOMAIN look_data :
       /\ Valid(look_data[i]) /\ TimeOf(look_data[i]) = Cutoff
       /\ Valid(look_data[j]) /\ TimeOf(look_data[j]) < Cutoff
       /\ KeyOf(look_data[i]) = KeyOf(look_data[j])

\* number of messages in the output
TotalOut ==
  Cardinality({<<i, k>> \in (DOMAIN grouped) \X (1..(MaxMsgs + 2)) :
                 k <= Len(grouped[i][2])})

\* C13: the call returns; every message of the output comes from a record
\* with a timestamp in the format, and the output has as many messages as
\* the argument has such records in the window, so a record without a
\* timestamp or with one that does not parse is in no group and takes no
\* other record out.
C13_UnparseableDropped ==
  Returned =>
    /\ \A b \in KeysOut : \A k \in DOMAIN GroupOf(b) :
         \E i \in RetainedOf(b) : ItemOf(look_data[i]) = GroupOf(b)[k]
    /\ TotalOut = Cardinality(Retained)

C13_Witness ==
  /\ Returned
  /\ \E i, j, k \in DOMAIN look_data :
       /\ "ts" \notin DOMAIN look_data[i]
       /\ "ts" \in DOMAIN look_data[j] /\ look_data[j].ts = BadStamp
       /\ k \in Retained
       /\ i < k /\ j < k

\* C14: the list under every key is the key's retained records ordered by
\* timestamp, records with the same timestamp in the order of the argument.
C14_StableSorted ==
  Returned =>
    \A b \in KeysOut :
      LET out == GroupOf(b)
      IN \E f \in [DOMAIN out -> RetainedOf(b)] :
           /\ \A k, l \in DOMAIN out : k # l => f[k] # f[l]
           /\ \A k \in DOMAIN out : out[k] = ItemOf(look_data[f[k]])
           /\ \A k, l \in DOMAIN out :
                k < l => \/ TimeOf(look_data[f[k]]) < TimeOf(look_data[f[l]])
                         \/ /\ TimeOf(look_data[f[k]]) = TimeOf(look_data[f[l]])
                            /\ f[k] < f[l]
           /\ \A k, l \in DOMAIN out : k < l => out[k][1] <= out[l][1]

C14_Witness ==
  /\ Returned
  /\ \E b \in KeysOut :
       /\ Len(GroupOf(b)) = 3
       /\ GroupOf(b)[1][1] = GroupOf(b)[2][1]
       /\ GroupOf(b)[1][2] # GroupOf(b)[2][2]
       /\ GroupOf(b)[2][1] < GroupOf(b)[3][1]
       /\ KeyOf(look_data[1]) = b /\ Valid(look_data[1])
       /\ ItemOf(look_data[1]) = GroupOf(b)[3]

\* C16: a record with a timestamp in the format is dropped exactly when the
\* timestamp is before the cutoff: the keys of the output are the keys of
\* the retained records, each once, and under every key every (timestamp,
\* content) pair is there as often as among the key's retained records.
C16_ExactlyRetained ==
  Returned =>
    /\ KeysOut = {KeyOf(look_data[i]) : i \in Retained}
    /\ \A i, j \in DOMAIN grouped : grouped[i][1] = grouped[j][1] => i = j
    /\ \A b \in KeysOut :
         /\ Len(GroupOf(b)) = Cardinality(RetainedOf(b))
         /\ \A i \in RetainedOf(b) :
              Count(GroupOf(b), ItemOf(look_data[i]))
                = Cardinality({j \in RetainedOf(b) :
                                 ItemOf(look_data[j]) = ItemOf(look_data[i])})

C16_Witness ==
  /\ Returned
  /\ Cardinality(KeysOut) = 2
  /\ "Unknown Brand" \in KeysOut
  /\ \E i, j \in DOMAIN look_data :
       /\ Valid(look_data[i]) /\ TimeOf(look_data[i]) < Cutoff
       /\ Valid(look_data[j]) /\ TimeOf(look_data[j]) = Cutoff

====
